---- MODULE Spec2Model ----
(***************************************************************************)
(* A model of kgtk/cli/zconcat.py: run() builds, for every input, a chain  *)
(* of prebaked `sh' filter commands (build_command / build_command_1 /     *)
(* get_stream_header) and then executes the flat list of commands          *)
(* (run_sh_commands).  The external filters (cat, zcat, gzip, file, ...)   *)
(* are processes; the byte streams they read and write are sequences of    *)
(* small naturals.                                                         *)
(***************************************************************************)
EXTENDS Integers, Sequences, FiniteSets, TLC

(* ------------------------------ bounds -------------------------------- *)

\* Longest list of inputs passed to run().
MaxInputs == 2

\* Most calls of run() made one after the other with the same list object.
MaxCalls == 2

\* The size of the header probe read from stdin.  build_command_1 asks for
\* 1024 bytes (zconcat.py:154); the model's streams are a few bytes long, so
\* the probe is scaled down with them.
ProbeSize == 2

(* --------------------------- byte streams ----------------------------- *)

Min(a, b) == IF a < b THEN a ELSE b

Take(s, n) == SubSeq(s, 1, Min(n, Len(s)))

Drop(s, n) == SubSeq(s, Min(n, Len(s)) + 1, Len(s))

\* The first byte of a compressed stream of each format (the leading byte of
\* the real signatures 1f 8b, 'B' 'Z' 'h' and fd '7' 'z' 'X' 'Z' 00).
Magic(fmt) ==
    CASE fmt = "gzip"  -> 31
      [] fmt = "bzip2" -> 66
      [] fmt = "xz"    -> 253

\* A compressed member: signature, transformed payload, end-of-member mark.
\* `compress -c' of the table's compress commands.
Encode(fmt, x) ==
    <<Magic(fmt)>> \o [i \in 1..Len(x) |-> x[i] + 100] \o <<0>>

\* Position of the first end-of-member mark at or after position i, or 0.
RECURSIVE EndOfMember(_, _)
EndOfMember(y, i) ==
    IF i > Len(y) THEN 0
    ELSE IF y[i] = 0 THEN i
    ELSE EndOfMember(y, i + 1)

\* The decoders zcat / bzcat / xzcat: decode member after member (they accept
\* multi-member streams), stop with a non-zero exit code at the first byte
\* that is not in the format, keeping what was decoded so far.
RECURSIVE Decode(_, _)
Decode(fmt, y) ==
    IF y = <<>> THEN [out |-> <<>>, code |-> 0]
    ELSE IF y[1] # Magic(fmt) THEN [out |-> <<>>, code |-> 1]
    ELSE LET e    == EndOfMember(y, 2)
             last == IF e = 0 THEN Len(y) ELSE e - 1
             body == SubSeq(y, 2, last)
             good == \A i \in 1..Len(body) : body[i] > 100
             text == [i \in 1..Len(body) |-> body[i] - 100]
         IN  IF e = 0 \/ ~good THEN [out |-> <<>>, code |-> 1]
             ELSE LET rest == Decode(fmt, SubSeq(y, e + 1, Len(y)))
                  IN  [out |-> text \o rest.out, code |-> rest.code]

(* -------------- compression_type_table and its lookups ---------------- *)

\* A lookup without the default: only the table's keys have a filter.
get_cat_command_strict(file_type) ==
    CASE file_type = "gzip"  -> "zcat"
      [] file_type = "bzip2" -> "bzcat"
      [] file_type = "xz"    -> "xzcat"
      [] file_type = "text"  -> "cat"
      [] OTHER               -> ""

\* compression_type_table[file_type]['cat'], with get_cat_command's default.
get_cat_command(file_type) ==
    CASE file_type = "gzip"  -> "zcat"
      [] file_type = "bzip2" -> "bzcat"
      [] file_type = "xz"    -> "xzcat"
      [] OTHER               -> "cat"

\* compression_type_table[file_type]['compress'], "" standing for None.
get_compress_command(file_type) ==
    CASE file_type = "gzip"  -> "gzip"
      [] file_type = "bzip2" -> "bzip2"
      [] file_type = "xz"    -> "xz"
      [] OTHER               -> ""

\* A switch table that prefers bzip2 to gzip.
compress_switch_bz2_first(gz, bz2, xz) ==
    IF bz2 THEN "bzip2" ELSE IF gz THEN "gzip" ELSE IF xz THEN "xz" ELSE "text"

compress_switch_to_file_type(gz, bz2, xz) ==
    IF gz THEN "gzip" ELSE IF bz2 THEN "bzip2" ELSE IF xz THEN "xz" ELSE "text"

\* The format a filter program decodes or encodes.
FormatOf(prog) ==
    CASE prog \in {"zcat", "gzip"}   -> "gzip"
      [] prog \in {"bzcat", "bzip2"} -> "bzip2"
      [] prog \in {"xzcat", "xz"}    -> "xz"
      [] OTHER                       -> "text"

\* What running a filter on the bytes `data' writes and how it exits.
Filter(prog, data) ==
    CASE prog \in {"zcat", "bzcat", "xzcat"} -> Decode(FormatOf(prog), data)
      [] prog \in {"gzip", "bzip2", "xz"}    ->
             [out |-> Encode(FormatOf(prog), data), code |-> 0]
      [] OTHER                               -> [out |-> data, code |-> 0]

\* determine_file_type: the first word of `file --brief', lower-cased.  A
\* file that cannot be opened is reported by `file' on its standard output
\* ("cannot open ...") with exit status 0.
determine_file_type(exists, data) ==
    IF ~exists THEN "cannot"
    ELSE IF data = <<>> THEN "empty"
    ELSE IF data[1] = Magic("gzip") THEN "gzip"
    ELSE IF data[1] = Magic("bzip2") THEN "bzip2"
    ELSE IF data[1] = Magic("xz") THEN "xz"
    ELSE "ascii"

(* ------------------------- get_stream_header -------------------------- *)

\* Length of the first n lines of s (a line ends with byte 10, the last line
\* may lack it).
RECURSIVE LinesLen(_, _, _)
LinesLen(s, n, i) ==
    IF n = 0 \/ i > Len(s) THEN i - 1
    ELSE IF s[i] = 10 THEN LinesLen(s, n - 1, i + 1)
    ELSE LinesLen(s, n, i + 1)

\* The number of bytes get_stream_header consumes from the unread part
\* `rest' of a stream: n readline() calls, or one read(n).
HeaderLen(rest, n, unit) ==
    IF unit = "line" THEN LinesLen(rest, n, 1) ELSE Min(n, Len(rest))


(* ------------------------------ state --------------------------------- *)

VARIABLES
    args,          \* run()'s arguments: inputs (a list, mutated), output, gz, bz2, xz
    fs,            \* the named files: path -> [exists, data]
    fs0,           \* the named files as they were when run() was called
    stdin,         \* sys.stdin.buffer: [data, pos, broken]
    stdout,        \* the bytes delivered to standard output
    consumerOpen,  \* whether the reader of standard output still reads
    pipes,         \* one record per build_command_1 call
    commands,      \* build_command's `command': the flat list of baked stages
    procs,         \* one process record per command
    pc,            \* where run() is
    bi,            \* build_command's position in `inputs'
    out_mode,      \* build_command's `out_mode'
    ci,            \* run_sh_commands' position in `commands'
    piped_output,  \* run_sh_commands' piped_output: a command index, 0 for None
    last_cmd,      \* run_sh_commands' last_cmd
    waitOn,        \* the command whose exit the blocking call is waiting for
    caught,        \* the exception that reached run()'s handlers
    result,        \* how run() ended
    calls          \* n: calls of run() so far; appended: times build_command
                   \* appended the stdin sentinel to the `inputs' list object

vars == <<args, fs, fs0, stdin, stdout, consumerOpen, pipes, commands, procs,
          pc, bi, out_mode, ci, piped_output, last_cmd, waitOn, caught, result,
          calls>>

Paths == {"a", "b", "out"}

NoFile == [exists |-> FALSE, data |-> <<>>]

File(data) == [exists |-> TRUE, data |-> data]

NoException == [type |-> "", msg |-> ""]

Running == [kind |-> "running", code |-> 0, type |-> "", msg |-> <<>>,
            flushed |-> FALSE]

\* The contents the model's files and standard input are drawn from.
ContentsA == {NoFile, File(<<1, 2>>), File(Encode("gzip", <<1, 2>>))}

ContentsB == {File(<<>>), File(Encode("bzip2", <<3>>)),
              File(Encode("xz", <<3>>)), File(<<31, 103>>)}

ContentsStdin == {<<5>>, <<5, 6, 7, 8, 5>>, Encode("gzip", <<5, 6>>)}

InputNames == {"-", "a", "b"}

InputLists == UNION {[1..n -> InputNames] : n \in 0..MaxInputs}

\* "" stands for output=None (standard output); "nodir/out" cannot be opened.
Outputs == {"", "out", "a", "nodir/out"}

Uses(as, name) == \E i \in DOMAIN as.inputs : as.inputs[i] = name

Init ==
    /\ args \in [inputs : InputLists, output : Outputs,
                 gz : BOOLEAN, bz2 : BOOLEAN, xz : BOOLEAN]
    /\ fs \in [Paths -> ContentsA \cup ContentsB \cup {File(<<9>>)}]
    /\ fs["a"] \in ContentsA
    /\ fs["b"] \in ContentsB
    /\ fs["out"] = File(<<9>>)
    \* a file or a stream the run never touches has one content
    /\ (~Uses(args, "a") /\ args.output # "a") => fs["a"] = File(<<1, 2>>)
    /\ ~Uses(args, "b") => fs["b"] = File(<<>>)
    /\ fs0 = fs
    /\ stdin \in [data : ContentsStdin, pos : {0}, broken : BOOLEAN]
    /\ stdin.broken => stdin.data = <<5>>
    /\ (~Uses(args, "-") /\ args.inputs # <<>>) =>
           (stdin.data = <<5>> /\ ~stdin.broken)
    /\ stdout = <<>>
    /\ consumerOpen = TRUE
    /\ pipes = <<>>
    /\ commands = <<>>
    /\ procs = <<>>
    /\ pc = "start"
    /\ bi = 1
    /\ out_mode = "wb"
    /\ ci = 1
    /\ piped_output = 0
    /\ last_cmd = 0
    /\ waitOn = 0
    /\ caught = NoException
    /\ result = Running
    /\ calls = [n |-> 1, appended |-> 0]

(* ------------------------------- run() -------------------------------- *)

\* A run() without the SIGPIPE clause: every exception is wrapped.
RunExceptNoSigpipe(e) ==
    [kind |-> "raise", code |-> 0, type |-> "KGTKException",
     msg |-> <<"INTERNAL ERROR: ", e.msg, "\n">>, flushed |-> FALSE]

\* A run() whose second clause lets the exception through as it is.
RunExceptLeak(e) ==
    IF e.type = "SignalException_SIGPIPE"
    THEN [kind |-> "none", code |-> 0, type |-> "", msg |-> <<>>,
          flushed |-> TRUE]
    ELSE [kind |-> "raise", code |-> 0, type |-> e.type,
          msg |-> <<e.msg>>, flushed |-> FALSE]

\* run()'s two except clauses: SIGPIPE flushes standard output and falls off
\* the end of run() (returning None); any other Exception is re-raised as a
\* KGTKException.
RunExcept(e) ==
    IF e.type = "SignalException_SIGPIPE"
    THEN [kind |-> "none", code |-> 0, type |-> "", msg |-> <<>>,
          flushed |-> TRUE]
    ELSE [kind |-> "raise", code |-> 0, type |-> "KGTKException",
          msg |-> <<"INTERNAL ERROR: ", e.msg, "\n">>, flushed |-> FALSE]

\* An exception leaves the try block of run().
Raise(e) ==
    /\ caught' = e
    /\ result' = RunExcept(e)
    /\ pc' = IF result'.kind = "raise" THEN "raised" ELSE "returned"

(* --------------------------- build_command ---------------------------- *)

\* A build_command that substitutes the sentinel whenever the list names no
\* file.
NeedsSentinelNoFile(inputs) == \A i \in DOMAIN inputs : inputs[i] = "-"

\* build_command's test for an empty list of inputs.
NeedsSentinel(inputs) == Len(inputs) = 0

\* build_command's prologue: an empty `inputs' gets the stdin sentinel
\* appended (to the list object itself).
BuildBegin ==
    /\ pc = "start"
    /\ args' = [args EXCEPT !.inputs =
                   IF NeedsSentinel(@) THEN Append(@, "-") ELSE @]
    /\ calls' = [calls EXCEPT !.appended =
                    IF NeedsSentinel(args.inputs) THEN @ + 1 ELSE @]
    /\ out_mode' = "wb"
    /\ bi' = 1
    /\ pc' = "build"
    /\ UNCHANGED <<fs, fs0, stdin, stdout, consumerOpen, pipes, commands,
                   procs, ci, piped_output, last_cmd, waitOn, caught, result>>

\* A build_command that never switches to append.
NextOutModeStuck == "wb"

\* out_mode after an input has been built.
NextOutMode == "ab"

\* An open() that never truncates.
OpenFileKeep(f, mode) == IF f.exists THEN f ELSE File(<<>>)

\* open(output, _out_mode) on the file f.
OpenFile(f, mode) ==
    IF mode = "wb" THEN File(<<>>)
    ELSE IF f.exists THEN f ELSE File(<<>>)

\* The stage get_stream_header returns: cat temp - reading the stream.
SpillStage ==
    [prog |-> "cat", path |-> "", spill |-> TRUE, to_target |-> FALSE,
     piped |-> TRUE, done |-> "rm"]

\* The chain build_command_1 bakes: for stdin the spill stage first, then the
\* decode command, then (if a codec was asked for) the compress command.
\* `inner' is the _piped flag of the decode command that feeds a compressor,
\* `piped' the _piped flag of the chain's last command.
ChainOf(input, file_type, compress, piped, inner) ==
    LET catcmd == get_cat_command(file_type)
        head   == IF input = "-" THEN <<SpillStage>> ELSE <<>>
        path   == IF input = "-" THEN "" ELSE input
    IN  IF compress # ""
        THEN head \o
             << [prog |-> catcmd, path |-> path, spill |-> FALSE,
                 to_target |-> FALSE, piped |-> inner, done |-> "none"],
                [prog |-> compress, path |-> "", spill |-> FALSE,
                 to_target |-> ~piped, piped |-> piped, done |-> "close"] >>
        ELSE head \o
             << [prog |-> catcmd, path |-> path, spill |-> FALSE,
                 to_target |-> ~piped, piped |-> piped, done |-> "close"] >>

\* A build_command_1 that bakes the last command of every chain as piped.
StagesLastPiped(input, file_type, compress, piped) ==
    ChainOf(input, file_type, compress, TRUE, TRUE)

\* A build_command_1 that drops the stage get_stream_header returns.
StagesNoSpill(input, file_type, compress, piped) ==
    ChainOf("", file_type, compress, piped, TRUE)

\* The list of baked commands build_command_1 returns.
Stages(input, file_type, compress, piped) ==
    ChainOf(input, file_type, compress, piped, TRUE)

NewProc == [st |-> "new", code |-> 0, out |-> <<>>, stdin_from |-> 0,
            read |-> <<>>, waited |-> FALSE]

\* One build_command_1 call, for inputs[bi] with the current out_mode:
\* open the output file, peek at stdin or classify the named file, and
\* extend `command' with the stages; then out_mode = 'ab'.  An exception
\* raised on the way (open() or stream.read() failing) leaves run() through
\* its handlers at once, with whatever was opened so far left open.
build_command_1 ==
    /\ pc = "build"
    /\ UNCHANGED calls
    /\ bi <= Len(args.inputs)
    /\ LET input     == IF args.inputs[bi] = "" THEN "-" ELSE args.inputs[bi]
           isfile    == args.output # ""
           canopen   == args.output \in Paths
           fs1       == IF isfile /\ canopen
                        THEN [fs EXCEPT ![args.output] = OpenFile(@, out_mode)]
                        ELSE fs
           compress  == get_compress_command(
                            compress_switch_to_file_type(args.gz, args.bz2, args.xz))
           rest      == Drop(stdin.data, stdin.pos)
           n         == HeaderLen(rest, ProbeSize, "byte")
           header    == Take(rest, n)
           file_type == IF input = "-"
                        THEN determine_file_type(TRUE, header)
                        ELSE determine_file_type(fs1[input].exists, fs1[input].data)
           stages    == Stages(input, file_type, compress, FALSE)
           pipe      == [input |-> input, out_mode |-> out_mode,
                         outfile |-> IF isfile THEN "open" ELSE "none",
                         offset |-> 0,
                         temp |-> IF input = "-" THEN "exists" ELSE "none",
                         tempdata |-> IF input = "-" THEN header ELSE <<>>,
                         peek_pos |-> stdin.pos,
                         header |-> IF input = "-" THEN header ELSE <<>>,
                         file_type |-> file_type, complete |-> TRUE]
       IN  IF isfile /\ ~canopen
           THEN /\ Raise([type |-> "OSError", msg |-> "cannot open output"])
                /\ UNCHANGED <<args, fs, fs0, stdin, stdout, consumerOpen, pipes,
                               commands, procs, bi, out_mode, ci, piped_output,
                               last_cmd, waitOn>>
           ELSE IF input = "-" /\ stdin.broken
           THEN /\ Raise([type |-> "ValueError", msg |-> "read of closed file"])
                /\ fs' = fs1
                /\ pipes' = Append(pipes, [pipe EXCEPT !.temp = "none",
                                                       !.tempdata = <<>>,
                                                       !.header = <<>>,
                                                       !.file_type = "",
                                                       !.complete = FALSE])
                /\ UNCHANGED <<args, fs0, stdin, stdout, consumerOpen, commands,
                               procs, bi, out_mode, ci, piped_output, last_cmd,
                               waitOn>>
           ELSE /\ fs' = fs1
                /\ stdin' = IF input = "-"
                            THEN [stdin EXCEPT !.pos = @ + n] ELSE stdin
                /\ pipes' = Append(pipes, pipe)
                /\ commands' = commands \o
                       [k \in 1..Len(stages) |->
                           [prog |-> stages[k].prog, path |-> stages[k].path,
                            spill |-> stages[k].spill,
                            to_target |-> stages[k].to_target,
                            piped |-> stages[k].piped, done |-> stages[k].done,
                            chain |-> bi]]
                /\ procs' = procs \o [k \in 1..Len(stages) |-> NewProc]
                /\ out_mode' = NextOutMode
                /\ bi' = bi + 1
                /\ UNCHANGED <<args, fs0, stdout, consumerOpen, pc, ci,
                               piped_output, last_cmd, waitOn, caught, result>>

(* -------------------------- run_sh_commands --------------------------- *)

\* A run() that starts executing as soon as the first input is built.
PlanCompleteLazy == bi > 1

\* build_command's loop over `inputs' has ended.
PlanComplete == bi > Len(args.inputs)

\* build_command has returned; run_sh_commands starts its loop.
run_sh_commands ==
    /\ pc = "build"
    /\ UNCHANGED calls
    /\ PlanComplete
    /\ pc' = "exec"
    /\ ci' = 1
    /\ piped_output' = 0
    /\ last_cmd' = 0
    /\ UNCHANGED <<args, fs, fs0, stdin, stdout, consumerOpen, pipes, commands,
                   procs, bi, out_mode, waitOn, caught, result>>

\* Whether calling a baked command blocks until its process has exited: a
\* command baked with _piped=True is started and returned at once.
ShouldWait(cmd) == ~cmd.piped

\* A run_sh_commands that never resets piped_output.
KeepsPipeAlways(cmd) == TRUE

\* run_sh_commands keeps piped_output for the next command only when the
\* command was baked as piped.
KeepsPipe(cmd) == cmd.piped

\* Commands run with every exit code accepted.
ExcForExitNever(code, piped) == NoException

\* Commands that raise for signals only.
ExcForExitSignalsOnly(code, piped) ==
    IF code = -13 /\ ~piped
    THEN [type |-> "SignalException_SIGPIPE", msg |-> "SIGPIPE"]
    ELSE NoException

\* The exception a finished command's exit code raises when it is waited
\* for: none for 0, none for SIGPIPE (-13) on a piped command.
ExcForExit(code, piped) ==
    IF code = 0 \/ (piped /\ code = -13) THEN NoException
    ELSE IF code = -13
    THEN [type |-> "SignalException_SIGPIPE", msg |-> "SIGPIPE"]
    ELSE [type |-> "ErrorReturnCode_1", msg |-> "exit code 1"]

\* One iteration of the loop up to the call of cmd: the process is started,
\* reading the previous command's output when piped_output is not None.
Launch ==
    /\ pc = "exec"
    /\ UNCHANGED calls
    /\ ci <= Len(commands)
    /\ procs' = [procs EXCEPT ![ci].st = "running",
                              ![ci].stdin_from = piped_output]
    /\ last_cmd' = ci
    /\ IF ShouldWait(commands[ci])
       THEN /\ pc' = "wait"
            /\ waitOn' = ci
            /\ UNCHANGED <<ci, piped_output>>
       ELSE /\ ci' = ci + 1
            /\ piped_output' = IF KeepsPipe(commands[ci]) THEN ci ELSE 0
            /\ UNCHANGED <<pc, waitOn>>
    /\ UNCHANGED <<args, fs, fs0, stdin, stdout, consumerOpen, pipes, commands,
                   bi, out_mode, caught, result>>

\* The blocking call waits for the command's process, raises what its exit
\* code asks for, then waits the same way for the process feeding its
\* standard input; when the whole chain is done the loop goes on.
Wait ==
    /\ pc = "wait"
    /\ UNCHANGED calls
    /\ procs[waitOn].st = "exited"
    /\ LET e == ExcForExit(procs[waitOn].code, commands[waitOn].piped)
       IN  IF e.type # ""
           THEN /\ Raise(e)
                /\ procs' = [procs EXCEPT ![waitOn].waited = TRUE]
                /\ UNCHANGED <<ci, piped_output, waitOn>>
           ELSE IF procs[waitOn].stdin_from # 0
           THEN /\ waitOn' = procs[waitOn].stdin_from
                /\ procs' = [procs EXCEPT ![waitOn].waited = TRUE]
                /\ UNCHANGED <<pc, ci, piped_output, caught, result>>
           ELSE /\ pc' = "exec"
                /\ ci' = ci + 1
                /\ piped_output' = IF KeepsPipe(commands[ci]) THEN ci ELSE 0
                /\ waitOn' = 0
                /\ procs' = [procs EXCEPT ![waitOn].waited = TRUE]
                /\ UNCHANGED <<caught, result>>
    /\ UNCHANGED <<args, fs, fs0, stdin, stdout, consumerOpen, pipes, commands,
                   bi, out_mode, last_cmd>>

\* run(): return run_sh_commands(commands).exit_code.  Reading exit_code waits
\* for the command if nothing has waited for it yet.
Return ==
    /\ pc = "exec"
    /\ UNCHANGED calls
    /\ ci > Len(commands)
    /\ last_cmd # 0
    /\ procs[last_cmd].st = "exited"
    /\ LET e == IF procs[last_cmd].waited THEN NoException
                ELSE ExcForExit(procs[last_cmd].code, commands[last_cmd].piped)
       IN  IF e.type # ""
           THEN Raise(e)
           ELSE /\ pc' = "returned"
                /\ result' = [Running EXCEPT !.kind = "code",
                                             !.code = procs[last_cmd].code]
                /\ UNCHANGED caught
    /\ UNCHANGED <<args, fs, fs0, stdin, stdout, consumerOpen, pipes, commands,
                   procs, bi, out_mode, ci, piped_output, last_cmd, waitOn>>


(* ------------------------- the filter processes ----------------------- *)

\* A write of `bytes' through a handle opened with `mode' whose position is
\* `offset': an 'ab' handle always writes at the end of the file, a 'wb'
\* handle at its own position.
WriteAt(data, mode, offset, bytes) ==
    IF mode = "ab" THEN data \o bytes
    ELSE Take(data, offset) \o bytes \o Drop(data, offset + Len(bytes))

\* _done callbacks that leave the output file open.
CleanupNoClose(p, done) ==
    IF done = "rm" THEN [p EXCEPT !.temp = "deleted"] ELSE p

\* The _done callbacks: get_stream_header's removes the spill file,
\* build_command_1's closes the output file it opened (if any).
Cleanup(p, done) ==
    IF done = "rm" THEN [p EXCEPT !.temp = "deleted"]
    ELSE IF done = "close"
    THEN [p EXCEPT !.outfile = IF @ = "open" THEN "closed" ELSE @]
    ELSE p

\* What the process of command k reads: the spill file and then the rest of
\* standard input (cat temp -), its file argument, or its standard input.
Source(k) ==
    LET c  == commands[k]
        p  == pipes[c.chain]
        up == procs[k].stdin_from
    IN  IF c.spill
        THEN [data |-> (IF p.temp = "exists" THEN p.tempdata ELSE <<>>)
                           \o Drop(stdin.data, stdin.pos),
              code |-> IF p.temp = "exists" THEN 0 ELSE 1]
        ELSE IF c.path # ""
        THEN [data |-> IF fs[c.path].exists THEN fs[c.path].data ELSE <<>>,
              code |-> IF fs[c.path].exists THEN 0 ELSE 1]
        ELSE [data |-> IF up # 0 THEN procs[up].out ELSE <<>>, code |-> 0]

\* The process of command k reads its input to the end, writes its output to
\* its sink (the output target, or the pipe to the next command) and exits;
\* its _done callback runs.  Writing to a sink whose reader is gone kills it
\* with SIGPIPE (exit code -13).
StageExit(k) ==
    /\ k \in 1..Len(procs)
    /\ UNCHANGED calls
    /\ procs[k].st = "running"
    /\ procs[k].stdin_from # 0 => procs[procs[k].stdin_from].st = "exited"
    /\ LET c   == commands[k]
           p   == pipes[c.chain]
           src == Source(k)
           f   == Filter(c.prog, src.data)
           out == f.out
           ec  == IF src.code # 0 THEN src.code ELSE f.code
           toStdout == c.to_target /\ args.output = ""
           toFile   == c.to_target /\ args.output # ""
           readerGone ==
               \E j \in 1..Len(procs) :
                   procs[j].stdin_from = k /\ procs[j].st = "exited"
           broken == /\ out # <<>>
                     /\ \/ toStdout /\ ~consumerOpen
                        \/ ~c.to_target /\ readerGone
           written == IF broken THEN <<>> ELSE out
       IN  /\ procs' = [procs EXCEPT ![k].st = "exited",
                                     ![k].code = IF broken THEN -13 ELSE ec,
                                     ![k].out = IF c.to_target THEN <<>> ELSE written,
                                     ![k].read = src.data]
           /\ stdout' = IF toStdout THEN stdout \o written ELSE stdout
           /\ fs' = IF toFile
                    THEN [fs EXCEPT ![args.output].data =
                              WriteAt(@, p.out_mode, p.offset, written)]
                    ELSE fs
           /\ pipes' = [pipes EXCEPT ![c.chain] =
                           Cleanup([p EXCEPT !.offset =
                                       IF toFile THEN @ + Len(written) ELSE @],
                                   c.done)]
           /\ stdin' = IF c.spill
                       THEN [stdin EXCEPT !.pos = Len(stdin.data)] ELSE stdin
    /\ UNCHANGED <<args, fs0, consumerOpen, commands, pc, bi, out_mode, ci,
                   piped_output, last_cmd, waitOn, caught, result>>

\* A compressor writing to a standard output nobody reads any more is killed
\* by SIGPIPE while the command feeding it is still running.
StageKilled(k) ==
    /\ k \in 1..Len(procs)
    /\ UNCHANGED calls
    /\ procs[k].st = "running"
    /\ commands[k].to_target
    /\ commands[k].prog \in {"gzip", "bzip2", "xz"}
    /\ args.output = ""
    /\ ~consumerOpen
    /\ procs[k].stdin_from # 0
    /\ procs[procs[k].stdin_from].st = "running"
    /\ procs' = [procs EXCEPT ![k].st = "exited", ![k].code = -13]
    /\ pipes' = [pipes EXCEPT ![commands[k].chain] = Cleanup(@, commands[k].done)]
    /\ UNCHANGED <<args, fs, fs0, stdin, stdout, consumerOpen, commands, pc, bi,
                   out_mode, ci, piped_output, last_cmd, waitOn, caught, result>>

\* The reader of standard output (head -4, say) stops reading.
CloseConsumer ==
    /\ args.output = ""
    /\ UNCHANGED calls
    /\ consumerOpen
    /\ pc \notin {"returned", "raised"}
    /\ consumerOpen' = FALSE
    /\ UNCHANGED <<args, fs, fs0, stdin, stdout, pipes, commands, procs, pc, bi,
                   out_mode, ci, piped_output, last_cmd, waitOn, caught, result>>

\* run() is called again with `inputs' omitted or empty: the list object is
\* the one the call before received empty (the default list of the def, which
\* every call that omits the argument shares, or an empty list the caller
\* owns and passes again).  The other arguments are the same; the processes
\* of the call before are gone.  Files and standard input stay as that call
\* left them; stdout restarts as the bytes this call delivers.
run ==
    /\ pc \in {"returned", "raised"}
    /\ calls.n < MaxCalls
    /\ calls.appended > 0
    /\ \A k \in 1..Len(procs) : procs[k].st # "running"
    /\ calls' = [calls EXCEPT !.n = @ + 1]
    /\ fs0' = fs
    /\ stdout' = <<>>
    /\ pipes' = <<>>
    /\ commands' = <<>>
    /\ procs' = <<>>
    /\ pc' = "start"
    /\ bi' = 1
    /\ out_mode' = "wb"
    /\ ci' = 1
    /\ piped_output' = 0
    /\ last_cmd' = 0
    /\ waitOn' = 0
    /\ caught' = NoException
    /\ result' = Running
    /\ UNCHANGED <<args, fs, stdin, consumerOpen>>

Next ==
    \/ run
    \/ BuildBegin
    \/ build_command_1
    \/ run_sh_commands
    \/ Launch
    \/ Wait
    \/ Return
    \/ \E k \in 1..Len(procs) : StageExit(k)
    \/ \E k \in 1..Len(procs) : StageKilled(k)
    \/ CloseConsumer

Spec == Init /\ [][Next]_vars


(* ============================ properties ============================== *)

RunOver == pc \in {"returned", "raised"}

\* build_command has returned the plan of every input.
Built == pc \notin {"start"} /\ bi > Len(args.inputs)

NoCodec == ~args.gz /\ ~args.bz2 /\ ~args.xz

\* The bytes delivered to the output target.
Delivered == IF args.output = "" THEN stdout ELSE fs[args.output].data

\* decode(x): x decoded by the decoder of the format its content has.
DecodeWhole(data) ==
    Filter(get_cat_command(determine_file_type(TRUE, data)), data).out

\* decode(input_i) for the inputs as they were when run() was called; a
\* stream read to its end by an earlier input has nothing left for a later one.
DecodedInput(i) ==
    IF args.inputs[i] = "-"
    THEN IF \E j \in 1..(i - 1) : args.inputs[j] = "-" THEN <<>>
         ELSE DecodeWhole(stdin.data)
    ELSE DecodeWhole(fs0[args.inputs[i]].data)

RECURSIVE ConcatUpTo(_)
ConcatUpTo(n) == IF n = 0 THEN <<>> ELSE ConcatUpTo(n - 1) \o DecodedInput(n)

SentinelCount == Cardinality({i \in DOMAIN args.inputs : args.inputs[i] = "-"})

Failed(k) == procs[k].st = "exited" /\ procs[k].code \notin {0, -13}

\* C1: with no output codec, a run that returns an exit status has delivered
\* to the output target exactly decode(input_1) + ... + decode(input_N), in
\* input order (stated for runs whose output file is not one of the inputs).
C1_OrderedConcatenation ==
    (/\ pc = "returned"
     /\ result.kind = "code"
     /\ NoCodec
     /\ ~Uses(args, args.output))
        => Delivered = ConcatUpTo(Len(args.inputs))

\* C2: no stage of a later input's chain is launched until every stage of
\* every earlier input's chain, its last stage included, has terminated.
C2_ChainsSequential ==
    \A k \in 1..Len(procs) :
        procs[k].st # "new" =>
            \A j \in 1..Len(procs) :
                commands[j].chain < commands[k].chain => procs[j].st = "exited"

C2_Witness ==
    \E k \in 1..Len(procs) :
        /\ commands[k].chain = 2
        /\ procs[k].st = "running"
        /\ procs[1].st = "exited"

\* C3: the write mode build_command passes to build_command_1 is 'wb' for the
\* first input and 'ab' for every later one, whatever the formats and flags.
C3_WriteModes ==
    \A i \in 1..Len(pipes) :
        pipes[i].out_mode = IF i = 1 THEN "wb" ELSE "ab"

C3_Witness ==
    /\ Len(pipes) = 2
    /\ pipes[2].out_mode = "ab"
    /\ pipes[1].file_type # pipes[2].file_type
    /\ args.gz

\* C4: the probe get_stream_header returns is the first min(n, length) bytes
\* of the stream as it was at the call, and what the reconstructed source
\* (cat spill -) reads end-to-end is exactly all the bytes the stream had at
\* the call.
C4_HeaderPeekReconstruction ==
    \A k \in 1..Len(procs) :
        (commands[k].spill /\ procs[k].st = "exited") =>
            LET p == pipes[commands[k].chain]
                original == Drop(stdin.data, p.peek_pos)
            IN  /\ p.header = Take(original, ProbeSize)
                /\ procs[k].read = original

\* C5: once run() has returned or raised (and every process it started has
\* exited), no output handle a pipeline opened is still open and no spill
\* file a pipeline created still exists.
C5_CleanupOnEveryExit ==
    (/\ RunOver
     /\ Built
     /\ \A k \in 1..Len(procs) : procs[k].st # "running")
        => \A i \in 1..Len(pipes) :
               pipes[i].outfile # "open" /\ pipes[i].temp # "exists"


\* The last command of the plan: the final stage of the final input.
Final == Len(commands)

\* C6 (as claimed): when run() is over and the final stage of the final input
\* has exited (not killed by SIGPIPE), run() has returned that stage's exit
\* status, 0 or not.
C6_ReturnsFinalExitStatus ==
    (/\ RunOver
     /\ Built
     /\ procs[Final].st = "exited"
     /\ procs[Final].code # -13)
        => (result.kind = "code" /\ result.code = procs[Final].code)

\* C6 (amended): a status run() returns is the final stage's and is 0; when the
\* final stage has exited with a non-zero status, run() has not returned it
\* but raised KGTKException.
C6_ReturnsZeroOrRaises ==
    /\ (pc = "returned" /\ result.kind = "code") =>
           /\ last_cmd = Final
           /\ result.code = procs[Final].code
           /\ result.code = 0
    /\ (RunOver /\ Built /\ Failed(Final)) =>
           (pc = "raised" /\ result.type = "KGTKException")

C6_Witness ==
    /\ pc = "raised"
    /\ Built
    /\ Failed(Final)
    /\ \A k \in 1..(Final - 1) : procs[k].st = "exited" /\ procs[k].code = 0

\* C7: when the stage that writes to the output has been killed by SIGPIPE,
\* run() raises nothing: it flushes standard output and returns, whichever
\* input's chain the stage belongs to.
C7_SigpipeIsNormalCompletion ==
    \A k \in 1..Len(procs) :
        (/\ ~commands[k].piped
         /\ procs[k].st = "exited"
         /\ procs[k].code = -13)
            => /\ pc # "raised"
               /\ RunOver => (/\ pc = "returned"
                              /\ result.kind = "none"
                              /\ result.flushed
                              /\ caught.type = "SignalException_SIGPIPE")

C7_Witness ==
    /\ pc = "returned"
    /\ \E k \in 1..Len(procs) :
           /\ commands[k].chain = 2
           /\ ~commands[k].piped
           /\ procs[k].st = "exited"
           /\ procs[k].code = -13

\* C8 (as claimed): when a stage has exited with a non-zero status (not
\* SIGPIPE) and run() is over, the stages of all inputs have been launched
\* and have run to completion.
C8_LaterInputsStillRun ==
    (/\ RunOver
     /\ Built
     /\ \E k \in 1..Len(procs) : Failed(k))
        => \A j \in 1..Len(procs) : procs[j].st = "exited"

\* C8 (amended): when a stage of input i has exited with a non-zero status
\* (not SIGPIPE), no stage of a later input is ever launched, and run() ends
\* through its exception handlers, never by returning an exit status.
C8_FailureAbortsLaterInputs ==
    \A k \in 1..Len(procs) :
        Failed(k) =>
            /\ \A j \in 1..Len(procs) :
                   commands[j].chain > commands[k].chain => procs[j].st = "new"
            /\ RunOver => (result.kind # "code" /\ caught.type # "")

C8_Witness ==
    /\ pc = "raised"
    /\ Len(pipes) = 2
    /\ \E k \in 1..Len(procs) : commands[k].chain = 1 /\ Failed(k)
    /\ \E j \in 1..Len(procs) : commands[j].chain = 2 /\ procs[j].st = "new"

\* C9 (as claimed): no two handles on the output file are open at the same
\* time with different write modes.
C9_NoConflictingHandles ==
    \A i, j \in 1..Len(pipes) :
        (pipes[i].outfile = "open" /\ pipes[j].outfile = "open")
            => pipes[i].out_mode = pipes[j].out_mode

\* C9 (amended): a stage of input i+1 is launched only after the handles of
\* all earlier inputs have been closed, so the handles, though open together,
\* are never written through at the same time.
C9_HandleClosedBeforeNextLaunch ==
    \A k \in 1..Len(procs) :
        procs[k].st # "new" =>
            \A i \in 1..Len(pipes) :
                i < commands[k].chain => pipes[i].outfile # "open"

C9_Witness ==
    /\ args.output = "out"
    /\ \E k \in 1..Len(procs) : commands[k].chain = 2 /\ procs[k].st = "running"
    /\ pipes[1].outfile = "closed"
    /\ pipes[2].outfile = "open"

\* C10: an exception other than SIGPIPE that reaches run()'s handlers leaves
\* run() as a KGTKException whose message is 'INTERNAL ERROR: ' followed by
\* the message of that exception; nothing else is ever raised by run().
C10_OnlyKGTKExceptionEscapes ==
    /\ caught.type \notin {"", "SignalException_SIGPIPE"} => pc = "raised"
    /\ pc = "raised" =>
           /\ result.type = "KGTKException"
           /\ caught.type \notin {"", "SignalException_SIGPIPE"}
           /\ SubSeq(result.msg, 1, 2) = <<"INTERNAL ERROR: ", caught.msg>>

C10_Witness ==
    /\ pc = "raised"
    /\ caught.type = "ErrorReturnCode_1"
    /\ result.type = "KGTKException"

(* ---- failures while building, codec selection and shape of the plan ---- *)

Encoders == {"gzip", "bzip2", "xz"}

Decoders == {"cat", "zcat", "bzcat", "xzcat"}

\* The positions in `commands' of the stages of input i's chain.
ChainStages(i) == {k \in 1..Len(commands) : commands[k].chain = i}

FirstOf(i) == CHOOSE k \in ChainStages(i) : \A j \in ChainStages(i) : k <= j

LastOf(i) == CHOOSE k \in ChainStages(i) : \A j \in ChainStages(i) : j <= k

\* The encoder the flags ask for by the precedence gz, bz2, xz; "" for none.
Wanted ==
    IF args.gz THEN "gzip" ELSE IF args.bz2 THEN "bzip2"
    ELSE IF args.xz THEN "xz" ELSE ""

\* C11: when the header peek of an input has failed with an I/O error and
\* run() is over, the pipelines of the inputs that precede it in the list have
\* been executed.
C11_EarlierInputsStillExecuted ==
    (/\ RunOver
     /\ Len(pipes) >= 2
     /\ ~pipes[Len(pipes)].complete)
        => \A k \in 1..Len(procs) :
               commands[k].chain < Len(pipes) => procs[k].st = "exited"

\* C12: every chain ends in an encode stage iff a flag is set; the encoder is
\* gzip if gz, otherwise bzip2 if bz2, otherwise xz; with no flag the last
\* stage is the decode stage of the input's format, the chain has no encoder,
\* and a one-input run that returns a status has delivered the decoded bytes
\* (encoded by the chosen encoder when a flag is set).
C12_EncoderByPrecedence ==
    /\ \A i \in 1..Len(pipes) :
           pipes[i].complete =>
               LET last == commands[LastOf(i)]
               IN  /\ (last.prog \in Encoders) <=> (args.gz \/ args.bz2 \/ args.xz)
                   /\ Wanted # "" => last.prog = Wanted
                   /\ Wanted = "" =>
                          /\ last.prog = get_cat_command(pipes[i].file_type)
                          /\ \A k \in ChainStages(i) :
                                 commands[k].prog \notin Encoders
    /\ (/\ pc = "returned"
        /\ result.kind = "code"
        /\ calls.n = 1
        /\ Len(args.inputs) = 1
        /\ ~Uses(args, args.output))
           => Delivered = IF Wanted = "" THEN DecodedInput(1)
                          ELSE Encode(Wanted, DecodedInput(1))

C12_Witness ==
    /\ pc = "returned"
    /\ result.kind = "code"
    /\ args.gz /\ args.bz2 /\ args.xz
    /\ Len(pipes) = 2
    /\ commands[LastOf(1)].prog = "gzip"
    /\ commands[LastOf(2)].prog = "gzip"
    /\ pipes[2].file_type = "xz"


\* C13 (as claimed): every chain has length 1 or 2: a decode stage, then at
\* most an encode stage.
C13_ChainLengthOneOrTwo ==
    \A i \in 1..Len(pipes) :
        pipes[i].complete =>
            LET n == Cardinality(ChainStages(i))
            IN  /\ n \in {1, 2}
                /\ commands[FirstOf(i)].prog \in Decoders
                /\ n = 2 => commands[LastOf(i)].prog \in Encoders

\* C13 (amended): the chain of a named file is its decode stage followed by at
\* most one encode stage (length 1 or 2); the chain of stdin is the stage
\* get_stream_header returns (cat spill -), then the decode stage, then at
\* most one encode stage (length 2 or 3); always in that order.
C13_ChainShape ==
    \A i \in 1..Len(pipes) :
        pipes[i].complete =>
            LET f == FirstOf(i)
                n == Cardinality(ChainStages(i))
                s == IF pipes[i].input = "-" THEN 1 ELSE 0
                e == IF Wanted # "" THEN 1 ELSE 0
            IN  /\ n = s + 1 + e
                /\ ChainStages(i) = f..(f + n - 1)
                /\ \A k \in ChainStages(i) : commands[k].spill <=> (s = 1 /\ k = f)
                /\ s = 1 => commands[f].prog = "cat"
                /\ commands[f + s].prog \in Decoders
                /\ \A k \in ChainStages(i) :
                       commands[k].prog \in Encoders <=> (e = 1 /\ k = f + s + 1)

C13_Witness ==
    /\ Built
    /\ Len(pipes) = 2
    /\ pipes[1].input = "-"
    /\ Cardinality(ChainStages(1)) = 3
    /\ pipes[2].input # "-"
    /\ Cardinality(ChainStages(2)) = 2

\* C14: in the flat plan every non-last stage of a chain is piped and does not
\* write to the output target, the last stage is not piped and writes to the
\* output target; a launched stage reads the output of the stage before it in
\* the list iff it is not the first stage of its chain, so no pipe connects
\* the chains of two inputs.
C14_PipesStayInsideChain ==
    /\ \A i \in 1..Len(pipes) :
           pipes[i].complete =>
               \A k \in ChainStages(i) :
                   /\ commands[k].piped <=> k # LastOf(i)
                   /\ commands[k].to_target <=> k = LastOf(i)
    /\ \A k \in 1..Len(procs) :
           procs[k].st # "new" =>
               procs[k].stdin_from =
                   IF k = FirstOf(commands[k].chain) THEN 0 ELSE k - 1

C14_Witness ==
    /\ Len(pipes) = 2
    /\ Cardinality(ChainStages(2)) >= 2
    /\ procs[FirstOf(2)].st = "exited"
    /\ procs[FirstOf(2)].stdin_from = 0
    /\ procs[LastOf(2)].st = "running"
    /\ procs[LastOf(2)].stdin_from = LastOf(2) - 1

\* C15: the header probe of a stdin input i+1 has been read only when every
\* stage of every earlier input's chain has terminated.
C15_NoEarlyRead ==
    \A i \in 2..Len(pipes) :
        (pipes[i].input = "-" /\ pipes[i].header # <<>>) =>
            \A k \in 1..Len(procs) :
                commands[k].chain < i => procs[k].st = "exited"

\* C16: the decode stage of every built chain is zcat, bzcat or xzcat for the
\* type tokens gzip, bzip2 and xz, and cat for every other token (that of an
\* empty or unreadable input included); building a plan never fails for an
\* input that could be opened and read, whatever its type token.
C16_DecodeLookupTotal ==
    /\ \A i \in 1..Len(pipes) :
           pipes[i].complete =>
               LET d == commands[FirstOf(i) + (IF pipes[i].input = "-" THEN 1 ELSE 0)]
                   t == pipes[i].file_type
               IN  d.prog = CASE t = "gzip"  -> "zcat"
                              [] t = "bzip2" -> "bzcat"
                              [] t = "xz"    -> "xzcat"
                              [] OTHER       -> "cat"
    /\ (RunOver /\ ~Built) => caught.type \in {"OSError", "ValueError"}

C16_Witness ==
    /\ Built
    /\ Len(pipes) = 2
    /\ pipes[1].file_type = "cannot"
    /\ commands[FirstOf(1)].prog = "cat"
    /\ pipes[2].file_type = "empty"
    /\ commands[FirstOf(2)].prog = "cat"

\* C17: when the first filter process of the plan is launched, build_command
\* has already, for every input, opened the output file, classified the input
\* and (for stdin) read the header probe and created the spill file.
C17_BuildBeforeLaunch ==
    (\E k \in 1..Len(procs) : procs[k].st # "new") =>
        /\ Len(pipes) = Len(args.inputs)
        /\ \A i \in 1..Len(pipes) :
               /\ pipes[i].complete
               /\ pipes[i].file_type # ""
               /\ args.output # "" => pipes[i].outfile # "none"
               /\ pipes[i].input = "-" => pipes[i].temp # "none"

C17_Witness ==
    /\ Len(pipes) = 2
    /\ args.output = "out"
    /\ procs[1].st = "running"
    /\ \A k \in 2..Len(procs) : procs[k].st = "new"
    /\ pipes[2].input = "-"
    /\ pipes[2].outfile = "open"
    /\ pipes[2].temp = "exists"
    /\ pipes[2].header # <<>>

RECURSIVE SumOffsets(_)
SumOffsets(n) == IF n = 0 THEN 0 ELSE SumOffsets(n - 1) + pipes[n].offset

\* C18: a named output file is truncated by the first build_command_1 call:
\* from then until a filter is launched it is empty; an input with the same
\* path is classified after the truncation (as empty); and at any time the
\* file holds only what the stages of this call have written, so its previous
\* content is gone also when building or executing fails.
C18_TruncatedBeforeAnything ==
    (args.output \in Paths /\ Len(pipes) >= 1) =>
        /\ (\A k \in 1..Len(procs) : procs[k].st = "new") =>
               fs[args.output] = File(<<>>)
        /\ \A i \in 1..Len(pipes) :
               (pipes[i].complete /\ pipes[i].input = args.output) =>
                   pipes[i].file_type = "empty"
        /\ fs[args.output].exists
        /\ Len(fs[args.output].data) = SumOffsets(Len(pipes))

C18_Witness ==
    /\ args.output = "a"
    /\ args.inputs = <<"b", "a">>
    /\ fs0["a"].data # <<>>
    /\ fs0["b"].data # <<>>
    /\ pc = "returned"
    /\ result.kind = "code"
    /\ fs["a"].data # <<>>

\* C19: over the calls of run() that receive the same empty list object, the
\* stdin sentinel is appended to it at most once; the list then holds that
\* one sentinel and every call builds the plan of one stdin input.
C19_SentinelAppendedOnce ==
    /\ calls.appended <= 1
    /\ (calls.appended = 1 /\ pc # "start") =>
           /\ args.inputs = <<"-">>
           /\ Len(pipes) <= 1
           /\ \A i \in 1..Len(pipes) : pipes[i].input = "-"
           /\ (Built /\ ~stdin.broken) => Len(pipes) = 1

C19_Witness ==
    /\ calls.n = 2
    /\ calls.appended = 1
    /\ pc = "exec"
    /\ Len(pipes) = 1
    /\ pipes[1].input = "-"

====
